---------------------------- MODULE Spec2Model ----------------------------
(***************************************************************************)
(* A model of import.js: the command handler, importTaxonomy and the three *)
(* source adapters importLaddr, importMatchmaker and importDemocracyLab.   *)
(*                                                                         *)
(* A JavaScript string is a sequence of one-character strings; a plain     *)
(* object is a sequence of <<key, value>> pairs with distinct keys, in     *)
(* insertion order (the order of for..in and Object.keys).  The commit     *)
(* step of the handler (lines 56-78) follows a successful import and is    *)
(* not modelled.                                                           *)
(***************************************************************************)
EXTENDS Integers, Sequences, FiniteSets

VARIABLES
    argv,           \* the parsed command line: sourceType, source, append
    payload,        \* what the external source serves in this run
    pc,             \* where the handler / adapter stands
    adapter,        \* the adapter importTaxonomy dispatched to
    treeCreated,    \* repo.createTree() has run
    fetched,        \* the URLs axios.get was called with, in order
    data,           \* the fetched payload (laddr: data.data, matchmaker: data)
    i,              \* index of the next record / streamed row
    tagsByPrefix,   \* importLaddr's tagsByPrefix
    warnings,       \* every console.warn of the adapters, in order
    tags,           \* importMatchmaker's tags / importDemocracyLab's tags buffer
    j,              \* index of the next item of the build loop
    pendingWrite,   \* the tree.writeChild call being awaited, or NoWrite
    writeLog,       \* the completed tree.writeChild calls, in order
    tree,           \* the tree's children: a set of [path, bytes]
    finalizeCalls,  \* how many times tree.write() was invoked
    promise,        \* the promise importTaxonomy returns to the handler
    streamState,    \* the parsed CSV stream: "none", "open", "ended" or "errored"
    fatal           \* the fatal error of the run, or "none"

vars == <<argv, payload, pc, adapter, treeCreated, fetched, data, i, tagsByPrefix,
          warnings, tags, j, pendingWrite, writeLog, tree, finalizeCalls, promise,
          streamState, fatal>>

---------------------------------------------------------------------------
(* Bounds *)

\* records / keys / rows a source serves in one run
MaxRecords == 2

---------------------------------------------------------------------------
(* Strings *)

Min(a, b) == IF a <= b THEN a ELSE b

\* the characters of the model in UTF-16 code unit order (Array.prototype.sort's
\* default order on keys)
Ascii == <<" ", "(", ")", "-", ".", "/", "1", "5",
           "A", "B", "C", "D", "E", "F", "G", "H", "I", "J", "K", "L", "M",
           "N", "O", "P", "Q", "R", "S", "T", "U", "V", "W", "X", "Y", "Z", "_",
           "a", "b", "c", "d", "e", "f", "g", "h", "i", "j", "k", "l", "m",
           "n", "o", "p", "q", "r", "s", "t", "u", "v", "w", "x", "y", "z">>

AsciiCode ==
    [c \in {Ascii[n] : n \in 1..Len(Ascii)} |-> CHOOSE n \in 1..Len(Ascii) : Ascii[n] = c]

CharCode(c) == AsciiCode[c]

UpperFirst == CharCode("A")
LowerFirst == CharCode("a")

\* String.prototype.toLowerCase, one character
LowerChar(c) ==
    IF c \in DOMAIN AsciiCode
    THEN LET n == CharCode(c)
         IN IF n >= UpperFirst /\ n < UpperFirst + 26
            THEN Ascii[LowerFirst + (n - UpperFirst)]
            ELSE c
    ELSE c

toLowerCase(s) == [n \in 1..Len(s) |-> LowerChar(s[n])]

\* the regular expression class \s
IsSpace(c) == c = " "

\* the explicit absence marker (null) and a missing property (undefined)
Null == <<"<null>">>
Undefined == <<"<undefined>">>

\* the truthiness test of !x and x || y on a string, null or undefined
Falsy(v) == v = Undefined \/ v = Null \/ v = <<>>

\* how a template literal renders a value
TemplateString(v) ==
    IF v = Undefined THEN <<"u", "n", "d", "e", "f", "i", "n", "e", "d">>
    ELSE IF v = Null THEN <<"n", "u", "l", "l">>
    ELSE v

RECURSIVE LexLess(_, _)
\* a < b on strings
LexLess(a, b) ==
    IF b = <<>> THEN FALSE
    ELSE IF a = <<>> THEN TRUE
    ELSE IF Head(a) = Head(b) THEN LexLess(Tail(a), Tail(b))
    ELSE CharCode(Head(a)) < CharCode(Head(b))

RECURSIVE SplitAll(_, _, _)
\* String.prototype.split(sep) for a one-character separator: the pieces between
\* all the separators; cur is the piece being read
SplitAll(s, sep, cur) ==
    IF s = <<>> THEN <<cur>>
    ELSE IF Head(s) = sep THEN <<cur>> \o SplitAll(Tail(s), sep, <<>>)
    ELSE SplitAll(Tail(s), sep, Append(cur, Head(s)))

\* String.prototype.split(sep, limit): the first limit pieces of split(sep)
split(s, sep, limit) ==
    LET all == SplitAll(s, sep, <<>>)
    IN SubSeq(all, 1, Min(limit, Len(all)))

\* index of the first character from position n on that satisfies / fails IsSpace,
\* Len(s) + 1 if there is none
RECURSIVE FirstSpace(_, _)
FirstSpace(s, n) ==
    IF n > Len(s) THEN n
    ELSE IF IsSpace(s[n]) THEN n ELSE FirstSpace(s, n + 1)

RECURSIVE FirstNonSpace(_, _)
FirstNonSpace(s, n) ==
    IF n > Len(s) THEN n
    ELSE IF IsSpace(s[n]) THEN FirstNonSpace(s, n + 1) ELSE n

\* s.replace(/\s+/, r): the first run of whitespace, and only it, becomes r
ReplaceFirstSpaceRun(s, r) ==
    LET a == FirstSpace(s, 1)
    IN IF a > Len(s) THEN s
       ELSE SubSeq(s, 1, a - 1) \o r \o SubSeq(s, FirstNonSpace(s, a), Len(s))

RECURSIVE IndexOf(_, _, _)
\* index of the first occurrence of pat in s at or after n, 0 if there is none
IndexOf(s, pat, n) ==
    IF n + Len(pat) - 1 > Len(s) THEN 0
    ELSE IF SubSeq(s, n, n + Len(pat) - 1) = pat THEN n
    ELSE IndexOf(s, pat, n + 1)

\* s.replace(pat, r) for a literal pattern: the first occurrence becomes r
ReplaceFirst(s, pat, r) ==
    LET a == IndexOf(s, pat, 1)
    IN IF a = 0 THEN s
       ELSE SubSeq(s, 1, a - 1) \o r \o SubSeq(s, a + Len(pat), Len(s))

RECURSIVE SpaceRunStart(_, _)
\* start of the run of whitespace that ends right before position n
SpaceRunStart(s, n) ==
    IF n > 1 /\ IsSpace(s[n - 1]) THEN SpaceRunStart(s, n - 1) ELSE n

\* s.replace(/\s*\(.*$/, ''): everything from the first "(", and the whitespace
\* before it, is cut
StripParen(s) ==
    LET a == IndexOf(s, <<"(">>, 1)
    IN IF a = 0 THEN s ELSE SubSeq(s, 1, SpaceRunStart(s, a) - 1)

---------------------------------------------------------------------------
(* Plain objects, sort-keys and TOML.stringify *)

HasKey(obj, k) == \E n \in 1..Len(obj) : obj[n][1] = k

\* obj[k], undefined when the key is missing
Get(obj, k) ==
    IF HasKey(obj, k)
    THEN obj[CHOOSE n \in 1..Len(obj) : obj[n][1] = k][2]
    ELSE Undefined

\* obj[k] = v: an existing key keeps its place, a new key goes last
Put(obj, k, v) ==
    IF HasKey(obj, k)
    THEN [n \in 1..Len(obj) |-> IF obj[n][1] = k THEN <<k, v>> ELSE obj[n]]
    ELSE Append(obj, <<k, v>>)

RECURSIVE Spread(_, _)
\* { ...obj, k1: v1, k2: v2, ... } for the pairs of more
Spread(obj, more) ==
    IF more = <<>> THEN obj
    ELSE Spread(Put(obj, more[1][1], more[1][2]), Tail(more))

Keys(obj) == [n \in 1..Len(obj) |-> obj[n][1]]

RECURSIVE InsertSorted(_, _)
InsertSorted(sorted, pair) ==
    IF sorted = <<>> THEN <<pair>>
    ELSE IF LexLess(pair[1], Head(sorted)[1]) THEN <<pair>> \o sorted
    ELSE <<Head(sorted)>> \o InsertSorted(Tail(sorted), pair)

RECURSIVE sortKeys(_)
\* sortKeys(obj, { deep: true }) on an object of scalars: the pairs by key
sortKeys(obj) ==
    IF obj = <<>> THEN <<>>
    ELSE InsertSorted(sortKeys(Tail(obj)), Head(obj))

\* TOML.stringify on an object of scalars: one `key = "value"` line per pair, in
\* the object's order; a null or undefined value gives no line
TOMLstringify(obj) == SelectSeq(obj, LAMBDA pair : pair[2] # Null /\ pair[2] # Undefined)

HasLine(bytes, k) == \E n \in 1..Len(bytes) : bytes[n][1] = k

---------------------------------------------------------------------------
(* String constants of the source *)

tech == <<"t", "e", "c", "h">>
topic == <<"t", "o", "p", "i", "c">>
event == <<"e", "v", "e", "n", "t">>
dotToml == <<".", "t", "o", "m", "l">>
kHandle == <<"h", "a", "n", "d", "l", "e">>
kTitle == <<"t", "i", "t", "l", "e">>
kClassName == <<"c", "l", "a", "s", "s", "_", "n", "a", "m", "e">>
kCategory == <<"c", "a", "t", "e", "g", "o", "r", "y">>
kCanonicalName == <<"c", "a", "n", "o", "n", "i", "c", "a", "l", "_", "n", "a", "m", "e">>
kParent == <<"p", "a", "r", "e", "n", "t">>
kSubcategory == <<"s", "u", "b", "c", "a", "t", "e", "g", "o", "r", "y">>
kCaption == <<"c", "a", "p", "t", "i", "o", "n">>

\* the two default source locations; each literal is kept whole, as one element
MatchmakerDefault ==
    <<"https://github.com/designforsf/brigade-matchmaker/files/2563599/all_json.txt">>
DemocracyLabDefault ==
    <<"https://raw.githubusercontent.com/DemocracyLab/CivicTechExchange/master/common/models/Tag_definitions.csv">>

\* `http://${source}/tags`
LaddrUrl(source) ==
    <<"h", "t", "t", "p", ":", "/", "/">> \o TemplateString(source)
        \o <<"/", "t", "a", "g", "s">>

\* `${prefix}/${tag}.toml`
LaddrPath(prefix, tag) == prefix \o <<"/">> \o tag \o dotToml

\* `${tag}.toml`
MatchmakerPath(tag) == tag \o dotToml

\* `${category}/${tagData.canonical_name}.toml`
DemocracyLabPath(category, name) ==
    TemplateString(category) \o <<"/">> \o TemplateString(name) \o dotToml

---------------------------------------------------------------------------
(* importLaddr, record by record *)

\* const [prefix, tag] = Handle.split('.', 2)
LaddrPrefix(Handle) == split(Handle, ".", 2)[1]

LaddrTag(Handle) ==
    LET parts == split(Handle, ".", 2)
    IN IF Len(parts) >= 2 THEN parts[2] ELSE Undefined

\* LaddrVerdict without the branch that skips event tags silently
LaddrVerdictNoEventBranch(Handle) ==
    IF Falsy(LaddrTag(Handle)) THEN "unprefixed"
    ELSE IF LaddrPrefix(Handle) # tech /\ LaddrPrefix(Handle) # topic THEN "unhandled"
    ELSE "keep"

\* the branch of the loop body a record takes
LaddrVerdict(Handle) ==
    IF Falsy(LaddrTag(Handle)) THEN "unprefixed"
    ELSE IF LaddrPrefix(Handle) = event THEN "event"
    ELSE IF LaddrPrefix(Handle) # tech /\ LaddrPrefix(Handle) # topic THEN "unhandled"
    ELSE "keep"

\* the console.warn of the loop body, if any
LaddrWarn(log, rec) ==
    CASE LaddrVerdict(rec.Handle) = "unprefixed" ->
             Append(log, <<"skipping unprefixed tag: ", rec.Handle>>)
      [] LaddrVerdict(rec.Handle) = "unhandled" ->
             Append(log, <<"skipping unhandled tag prefix: ", LaddrPrefix(rec.Handle)>>)
      [] OTHER -> log

\* StoreTag keeping the record already stored under the tag
StoreTagKeepsFirst(byPrefix, rec) ==
    LET prefix == LaddrPrefix(rec.Handle)
        tag == LaddrTag(rec.Handle)
        started == IF HasKey(byPrefix, prefix) THEN byPrefix ELSE Put(byPrefix, prefix, <<>>)
    IN IF HasKey(Get(started, prefix), tag)
       THEN started
       ELSE Put(started, prefix,
                Put(Get(started, prefix), tag,
                    <<<<kHandle, rec.Handle>>, <<kTitle, rec.Title>>>>))

\* tagsByPrefix[prefix][tag] = { handle: Handle, title: Title }
StoreTag(byPrefix, rec) ==
    LET prefix == LaddrPrefix(rec.Handle)
        tag == LaddrTag(rec.Handle)
        started == IF HasKey(byPrefix, prefix) THEN byPrefix ELSE Put(byPrefix, prefix, <<>>)
    IN Put(started, prefix,
           Put(Get(started, prefix), tag, <<<<kHandle, rec.Handle>>, <<kTitle, rec.Title>>>>))

\* one pass of the loop body on tagsByPrefix
LaddrLoad(byPrefix, rec) ==
    IF LaddrVerdict(rec.Handle) = "keep" THEN StoreTag(byPrefix, rec) ELSE byPrefix

RECURSIVE LaddrQueue(_)
\* the <<prefix, tag>> pairs in the order of the two nested for..in loops
LaddrQueue(byPrefix) ==
    IF byPrefix = <<>> THEN <<>>
    ELSE LET prefix == Head(byPrefix)[1]
             inner == Head(byPrefix)[2]
         IN [n \in 1..Len(inner) |-> <<prefix, inner[n][1]>>] \o LaddrQueue(Tail(byPrefix))

\* TOML.stringify(sortKeys({ ...tags[tag], handle: null }, { deep: true }))
LaddrToml(tagEntry) == TOMLstringify(sortKeys(Spread(tagEntry, <<<<kHandle, Null>>>>)))

\* the tree.writeChild call of one <<prefix, tag>>
LaddrWrite(byPrefix, item) ==
    [path |-> LaddrPath(item[1], item[2]),
     bytes |-> LaddrToml(Get(Get(byPrefix, item[1]), item[2]))]

---------------------------------------------------------------------------
(* importMatchmaker, key by key *)

\* TOML.stringify(sortKeys({ ...data[tag], class_name: null }, { deep: true }))
MatchmakerToml(rec) == TOMLstringify(sortKeys(Spread(rec, <<<<kClassName, Null>>>>)))

MatchmakerWrite(obj, tag) ==
    [path |-> MatchmakerPath(tag), bytes |-> MatchmakerToml(Get(obj, tag))]

---------------------------------------------------------------------------
(* importDemocracyLab, row by row *)

\* columnName.replace(/\s*\(.*$/, '').replace(/\s+/, '_').toLowerCase()
FieldName(columnName) ==
    toLowerCase(ReplaceFirstSpaceRun(StripParen(columnName), <<"_">>))

RECURSIVE RowToTagData(_, _)
\* the 'data' handler's loop: tagData[fieldName] = row[columnName]
RowToTagData(row, tagData) ==
    IF row = <<>> THEN tagData
    ELSE RowToTagData(Tail(row), Put(tagData, FieldName(Head(row)[1]), Head(row)[2]))

\* tagData.category.replace(/\s+/, '-').replace(/\(s\)/, 's').toLowerCase()
CategorySegment(category) ==
    toLowerCase(ReplaceFirst(ReplaceFirstSpaceRun(category, <<"-">>),
                             <<"(", "s", ")">>, <<"s">>))

\* x || null
OrNull(v) == IF Falsy(v) THEN Null ELSE v

\* TOML.stringify(sortKeys({ ...tagData, category: null, canonical_name: null,
\*     parent: tagData.parent || null, subcategory: ..., caption: ... }, { deep: true }))
DemocracyLabToml(tagData) ==
    TOMLstringify(sortKeys(Spread(tagData,
        << <<kCategory, Null>>,
           <<kCanonicalName, Null>>,
           <<kParent, OrNull(Get(tagData, kParent))>>,
           <<kSubcategory, OrNull(Get(tagData, kSubcategory))>>,
           <<kCaption, OrNull(Get(tagData, kCaption))>> >>)))

\* tagData.category.replace(...) throws a TypeError when the row has no category
DerivationThrows(tagData) == Get(tagData, kCategory) \in {Undefined, Null}

DemocracyLabWrite(tagData) ==
    [path |-> DemocracyLabPath(CategorySegment(Get(tagData, kCategory)),
                               Get(tagData, kCanonicalName)),
     bytes |-> DemocracyLabToml(tagData)]

---------------------------------------------------------------------------
(* The tree *)

NoWrite == [path |-> <<>>, bytes |-> <<>>]

\* tree.writeChild(path, bytes): the child at path is set, replacing one already there
writeChild(children, w) == {e \in children : e.path # w.path} \cup {w}

---------------------------------------------------------------------------
(* What the sources may serve *)

cloud == <<"c", "l", "o", "u", "d">>
dot == <<".">>

\* the handles of the laddr tags
LaddrHandles ==
    { tech \o dot \o cloud,                                \* tech.cloud
      tech \o dot \o cloud \o dot \o <<"a", "w", "s">>,      \* tech.cloud.aws
      tech \o dot,                                          \* tech.
      topic \o dot \o dot \o <<"a", "w", "s">>,              \* topic..aws
      topic \o dot \o cloud,                               \* topic.cloud
      event \o dot \o <<"l", "a", "u", "n", "c", "h">>,      \* event.launch
      event \o dot,                                         \* event.
      <<"m", "i", "s", "c">> \o dot \o <<"w", "i", "d", "g", "e", "t">>,  \* misc.widget
      <<"o", "r", "p", "h", "a", "n">> }                    \* orphan

Titles == { <<"A">>, <<"B">> }

LaddrRecords == [Handle : LaddrHandles, Title : Titles]

SeqsUpTo(S, n) == UNION { [1..m -> S] : m \in 0..n }

LaddrPayloads == SeqsUpTo(LaddrRecords, MaxRecords)

kDescription == <<"d", "e", "s", "c", "r", "i", "p", "t", "i", "o", "n">>

MatchmakerKeys ==
    { <<"c", "l", "e", "a", "n", "-", "w", "a", "t", "e", "r">>,
      <<"h", "o", "u", "s", "i", "n", "g">>,
      <<"p", "a", "r", "k", "s">> }

MatchmakerRecords ==
    { << <<kClassName, <<"C", "l", "s">> >>, <<kDescription, <<"d">> >> >>,
      << <<kDescription, <<"e">> >> >> }

DistinctKeys(obj) == \A m, n \in 1..Len(obj) : obj[m][1] = obj[n][1] => m = n

\* a JSON object: its keys are distinct
MatchmakerPayloads ==
    { obj \in SeqsUpTo(MatchmakerKeys \X MatchmakerRecords, MaxRecords) : DistinctKeys(obj) }

\* the columns of the CSV file, in the file's order
hCanonicalName ==
    <<"C", "a", "n", "o", "n", "i", "c", "a", "l", " ", "N", "a", "m", "e">>
hPriority == <<"P", "r", "i", "o", "r", "i", "t", "y", " ", "(", "1", "-", "5", ")">>
hTagDisplayName ==
    <<"T", "a", "g", " ", "D", "i", "s", "p", "l", "a", "y", " ", "N", "a", "m", "e">>
hParent == <<"P", "a", "r", "e", "n", "t">>
hCategory == <<"C", "a", "t", "e", "g", "o", "r", "y">>

CanonicalNames == { <<"n">>, <<"m">> }
Parents == { <<>>, <<"p">> }
Categories ==
    { <<"H", "e", "a", "l", "t", "h", " ", "C", "a", "r", "e", "(", "s", ")">>,     \* Health Care(s)
      <<"R", "o", "l", "e", " ", "T", "y", "p", "e", " ", "A", "r", "e", "a">> }    \* Role Type Area

\* a row as csv-parser emits it: a full row has every column, a short row (fewer
\* cells than headers) has only the leading ones
FullRows ==
    { << <<hCanonicalName, name>>, <<hPriority, <<"5">> >>, <<hTagDisplayName, <<"t">> >>,
         <<hParent, parent>>, <<hCategory, category>> >> :
      <<name, parent, category>> \in CanonicalNames \X Parents \X Categories }

ShortRows ==
    { << <<hCanonicalName, name>>, <<hPriority, <<"5">> >> >> : name \in {<<"n">>} }

CsvRows == FullRows \cup ShortRows

CsvPayloads == SeqsUpTo(CsvRows, MaxRecords)

SourceTypes == {"laddr", "matchmaker", "democracylab", "other"}

\* a source location given on the command line
Override == <<"x", ".", "o", "r", "g">>

PayloadsOf(sourceType) ==
    CASE sourceType = "laddr" -> LaddrPayloads
      [] sourceType = "matchmaker" -> MatchmakerPayloads
      [] sourceType = "democracylab" -> CsvPayloads
      [] OTHER -> {<<>>}

---------------------------------------------------------------------------
(* The run *)

Init ==
    /\ argv \in [sourceType : SourceTypes, source : {Undefined, Override}, append : BOOLEAN]
    /\ payload \in PayloadsOf(argv.sourceType)
    /\ pc = "start"
    /\ adapter = "none"
    /\ treeCreated = FALSE
    /\ fetched = <<>>
    /\ data = <<>>
    /\ i = 1
    /\ tagsByPrefix = <<>>
    /\ warnings = <<>>
    /\ tags = <<>>
    /\ j = 1
    /\ pendingWrite = NoWrite
    /\ writeLog = <<>>
    /\ tree = {}
    /\ finalizeCalls = 0
    /\ promise = "none"
    /\ streamState = "none"
    /\ fatal = "none"

\* handler: repo.createTree()
CreateTree ==
    /\ pc = "start"
    /\ treeCreated' = TRUE
    /\ pc' = "append_check"
    /\ UNCHANGED <<argv, payload, adapter, fetched, data, i, tagsByPrefix, warnings,
                   tags, j, pendingWrite, writeLog, tree, finalizeCalls, promise,
                   streamState, fatal>>

\* handler: if (append) throw new Error('append is not yet implemented')
AppendRejected ==
    /\ pc = "append_check"
    /\ argv.append
    /\ pc' = "crashed"
    /\ fatal' = "append"
    /\ UNCHANGED <<argv, payload, adapter, treeCreated, fetched, data, i, tagsByPrefix,
                   warnings, tags, j, pendingWrite, writeLog, tree, finalizeCalls,
                   promise, streamState>>

\* Dispatch with the append check missing
DispatchIgnoresAppend ==
    /\ pc = "append_check"
    /\ argv.sourceType \in {"laddr", "matchmaker", "democracylab"}
    /\ adapter' = argv.sourceType
    /\ promise' = "pending"
    /\ pc' = "get"
    /\ UNCHANGED <<argv, payload, treeCreated, fetched, data, i, tagsByPrefix,
                   warnings, tags, j, pendingWrite, writeLog, tree, finalizeCalls,
                   streamState, fatal>>

\* importTaxonomy: a known source type reaches its adapter
Dispatch ==
    /\ pc = "append_check"
    /\ ~argv.append
    /\ argv.sourceType \in {"laddr", "matchmaker", "democracylab"}
    /\ adapter' = argv.sourceType
    /\ promise' = "pending"
    /\ pc' = "get"
    /\ UNCHANGED <<argv, payload, treeCreated, fetched, data, i, tagsByPrefix,
                   warnings, tags, j, pendingWrite, writeLog, tree, finalizeCalls,
                   streamState, fatal>>

\* importTaxonomy: throw new Error('Unsupported source type'), caught by the
\* handler, which exits with status 1
UnsupportedSourceType ==
    /\ pc = "append_check"
    /\ ~argv.append
    /\ argv.sourceType \notin {"laddr", "matchmaker", "democracylab"}
    /\ promise' = "rejected"
    /\ pc' = "failed"
    /\ fatal' = "unsupported"
    /\ UNCHANGED <<argv, payload, adapter, treeCreated, fetched, data, i, tagsByPrefix,
                   warnings, tags, j, pendingWrite, writeLog, tree, finalizeCalls,
                   streamState>>

\* the location an adapter fetches from
LaddrSource(source) == LaddrUrl(source)

\* if (!source) source = <default>
MatchmakerSource(source) == IF Falsy(source) THEN MatchmakerDefault ELSE source

DemocracyLabSource(source) == IF Falsy(source) THEN DemocracyLabDefault ELSE source

\* importLaddr: axios.get(`http://${source}/tags`, ...)
LaddrGet ==
    /\ pc = "get"
    /\ adapter = "laddr"
    /\ fetched' = Append(fetched, LaddrSource(argv.source))
    /\ pc' = "fetching"
    /\ UNCHANGED <<argv, payload, adapter, treeCreated, data, i, tagsByPrefix,
                   warnings, tags, j, pendingWrite, writeLog, tree, finalizeCalls,
                   promise, streamState, fatal>>

\* importMatchmaker: axios.get(source)
MatchmakerGet ==
    /\ pc = "get"
    /\ adapter = "matchmaker"
    /\ fetched' = Append(fetched, MatchmakerSource(argv.source))
    /\ pc' = "fetching"
    /\ UNCHANGED <<argv, payload, adapter, treeCreated, data, i, tagsByPrefix,
                   warnings, tags, j, pendingWrite, writeLog, tree, finalizeCalls,
                   promise, streamState, fatal>>

\* importDemocracyLab: console.warn(`downloading ${source}`); axios.get(source, ...)
DemocracyLabGet ==
    /\ pc = "get"
    /\ adapter = "democracylab"
    /\ warnings' = Append(warnings, <<"downloading ", DemocracyLabSource(argv.source)>>)
    /\ fetched' = Append(fetched, DemocracyLabSource(argv.source))
    /\ pc' = "fetching"
    /\ UNCHANGED <<argv, payload, adapter, treeCreated, data, i, tagsByPrefix, tags, j,
                   pendingWrite, writeLog, tree, finalizeCalls, promise, streamState,
                   fatal>>

\* the awaited axios.get rejects: the adapter throws, the handler exits with status 1
FetchFails ==
    /\ pc = "fetching"
    /\ promise' = "rejected"
    /\ pc' = "failed"
    /\ fatal' = "fetch"
    /\ UNCHANGED <<argv, payload, adapter, treeCreated, fetched, data, i, tagsByPrefix,
                   warnings, tags, j, pendingWrite, writeLog, tree, finalizeCalls,
                   streamState>>

\* importLaddr: the response arrives; data is its data.data
LaddrFetched ==
    /\ pc = "fetching"
    /\ adapter = "laddr"
    /\ data' = payload
    /\ pc' = "load"
    /\ UNCHANGED <<argv, payload, adapter, treeCreated, fetched, i, tagsByPrefix,
                   warnings, tags, j, pendingWrite, writeLog, tree, finalizeCalls,
                   promise, streamState, fatal>>

\* importLaddr: one pass of the loop over data
LaddrLoadTag ==
    /\ pc = "load"
    /\ adapter = "laddr"
    /\ i <= Len(data)
    /\ warnings' = LaddrWarn(warnings, data[i])
    /\ tagsByPrefix' = LaddrLoad(tagsByPrefix, data[i])
    /\ i' = i + 1
    /\ UNCHANGED <<argv, payload, pc, adapter, treeCreated, fetched, data, tags, j,
                   pendingWrite, writeLog, tree, finalizeCalls, promise, streamState,
                   fatal>>

\* importLaddr: the loop over data ends, the loops over tagsByPrefix begin
LaddrLoaded ==
    /\ pc = "load"
    /\ adapter = "laddr"
    /\ i > Len(data)
    /\ tags' = LaddrQueue(tagsByPrefix)
    /\ j' = 1
    /\ pc' = "build"
    /\ UNCHANGED <<argv, payload, adapter, treeCreated, fetched, data, i, tagsByPrefix,
                   warnings, pendingWrite, writeLog, tree, finalizeCalls, promise,
                   streamState, fatal>>

\* importLaddr: tree.writeChild(`${prefix}/${tag}.toml`, toml) is called
LaddrWriteChild ==
    /\ pc = "build"
    /\ adapter = "laddr"
    /\ j <= Len(tags)
    /\ pendingWrite' = LaddrWrite(tagsByPrefix, tags[j])
    /\ pc' = "writing"
    /\ UNCHANGED <<argv, payload, adapter, treeCreated, fetched, data, i, tagsByPrefix,
                   warnings, tags, j, writeLog, tree, finalizeCalls, promise,
                   streamState, fatal>>

\* importMatchmaker: the response arrives; tags = Object.keys(data)
MatchmakerFetched ==
    /\ pc = "fetching"
    /\ adapter = "matchmaker"
    /\ data' = payload
    /\ tags' = Keys(payload)
    /\ j' = 1
    /\ pc' = "build"
    /\ UNCHANGED <<argv, payload, adapter, treeCreated, fetched, i, tagsByPrefix,
                   warnings, pendingWrite, writeLog, tree, finalizeCalls, promise,
                   streamState, fatal>>

\* importMatchmaker: tree.writeChild(`${tag}.toml`, toml) is called
MatchmakerWriteChild ==
    /\ pc = "build"
    /\ adapter = "matchmaker"
    /\ j <= Len(tags)
    /\ pendingWrite' = MatchmakerWrite(data, tags[j])
    /\ pc' = "writing"
    /\ UNCHANGED <<argv, payload, adapter, treeCreated, fetched, data, i, tagsByPrefix,
                   warnings, tags, j, writeLog, tree, finalizeCalls, promise,
                   streamState, fatal>>

\* importDemocracyLab: the response arrives; the promise the adapter returns is
\* created and the 'data', 'end' and 'error' handlers are attached to the parsed
\* stream
DemocracyLabFetched ==
    /\ pc = "fetching"
    /\ adapter = "democracylab"
    /\ streamState' = "open"
    /\ tags' = <<>>
    /\ i' = 1
    /\ pc' = "streaming"
    /\ UNCHANGED <<argv, payload, adapter, treeCreated, fetched, data, tagsByPrefix,
                   warnings, j, pendingWrite, writeLog, tree, finalizeCalls, promise,
                   fatal>>

\* StreamData writing each row into the tree as it arrives
StreamDataWritesRow ==
    /\ pc = "streaming"
    /\ streamState = "open"
    /\ i <= Len(payload)
    /\ tags' = Append(tags, RowToTagData(payload[i], <<>>))
    /\ tree' = writeChild(tree, DemocracyLabWrite(RowToTagData(payload[i], <<>>)))
    /\ i' = i + 1
    /\ UNCHANGED <<argv, payload, pc, adapter, treeCreated, fetched, data,
                   tagsByPrefix, warnings, j, pendingWrite, writeLog, finalizeCalls,
                   promise, streamState, fatal>>

\* the 'data' handler: the row is normalized and buffered
StreamData ==
    /\ pc = "streaming"
    /\ streamState = "open"
    /\ i <= Len(payload)
    /\ tags' = Append(tags, RowToTagData(payload[i], <<>>))
    /\ i' = i + 1
    /\ UNCHANGED <<argv, payload, pc, adapter, treeCreated, fetched, data,
                   tagsByPrefix, warnings, j, pendingWrite, writeLog, tree,
                   finalizeCalls, promise, streamState, fatal>>

\* the 'error' handler: reject; the rows left are never delivered
StreamError ==
    /\ pc = "streaming"
    /\ streamState = "open"
    /\ streamState' = "errored"
    /\ promise' = "rejected"
    /\ pc' = "failed"
    /\ fatal' = "decode"
    /\ UNCHANGED <<argv, payload, adapter, treeCreated, fetched, data, i, tagsByPrefix,
                   warnings, tags, j, pendingWrite, writeLog, tree, finalizeCalls>>

\* the 'end' handler starts: the source has delivered every row
StreamEnd ==
    /\ pc = "streaming"
    /\ streamState = "open"
    /\ i > Len(payload)
    /\ streamState' = "ended"
    /\ j' = 1
    /\ pc' = "build"
    /\ UNCHANGED <<argv, payload, adapter, treeCreated, fetched, data, i, tagsByPrefix,
                   warnings, tags, pendingWrite, writeLog, tree, finalizeCalls,
                   promise, fatal>>

\* the 'end' handler: the path and document of the next buffered row are derived
\* and tree.writeChild is called
DemocracyLabWriteChild ==
    /\ pc = "build"
    /\ adapter = "democracylab"
    /\ j <= Len(tags)
    /\ ~DerivationThrows(tags[j])
    /\ pendingWrite' = DemocracyLabWrite(tags[j])
    /\ pc' = "writing"
    /\ UNCHANGED <<argv, payload, adapter, treeCreated, fetched, data, i, tagsByPrefix,
                   warnings, tags, j, writeLog, tree, finalizeCalls, promise,
                   streamState, fatal>>

\* the 'end' handler: the derivation throws inside the async handler; nothing
\* catches it, neither resolve nor reject is ever called, and the handler's await
\* never returns
DemocracyLabDeriveThrows ==
    /\ pc = "build"
    /\ adapter = "democracylab"
    /\ j <= Len(tags)
    /\ DerivationThrows(tags[j])
    /\ pc' = "abandoned"
    /\ fatal' = "derive"
    /\ UNCHANGED <<argv, payload, adapter, treeCreated, fetched, data, i, tagsByPrefix,
                   warnings, tags, j, pendingWrite, writeLog, tree, finalizeCalls,
                   promise, streamState>>

\* the awaited tree.writeChild resolves
WriteChildDone ==
    /\ pc = "writing"
    /\ tree' = writeChild(tree, pendingWrite)
    /\ writeLog' = Append(writeLog, pendingWrite)
    /\ pendingWrite' = NoWrite
    /\ j' = j + 1
    /\ pc' = "build"
    /\ UNCHANGED <<argv, payload, adapter, treeCreated, fetched, data, i, tagsByPrefix,
                   warnings, tags, finalizeCalls, promise, streamState, fatal>>

\* what a rejected await does to the run: importLaddr and importMatchmaker throw to
\* the handler's catch; in importDemocracyLab's 'end' handler nothing catches it
AfterWriteChildThrows(which) == IF which = "democracylab" THEN "abandoned" ELSE "failed"

\* ... and to the promise the handler awaits
PromiseAfterWriteChildThrows(which) ==
    IF which = "democracylab" THEN "pending" ELSE "rejected"

\* the awaited tree.writeChild rejects
WriteChildFails ==
    /\ pc = "writing"
    /\ pendingWrite' = NoWrite
    /\ pc' = AfterWriteChildThrows(adapter)
    /\ promise' = PromiseAfterWriteChildThrows(adapter)
    /\ fatal' = "writeChild"
    /\ UNCHANGED <<argv, payload, adapter, treeCreated, fetched, data, i, tagsByPrefix,
                   warnings, tags, j, writeLog, tree, finalizeCalls, streamState>>

\* TreeWrite with the last tree.writeChild not awaited
TreeWriteUnawaited ==
    /\ pc \in {"build", "writing"}
    /\ j + (IF pc = "writing" THEN 1 ELSE 0) > Len(tags)
    /\ finalizeCalls' = finalizeCalls + 1
    /\ pc' = "finalizing"
    /\ UNCHANGED <<argv, payload, adapter, treeCreated, fetched, data, i, tagsByPrefix,
                   warnings, tags, j, pendingWrite, writeLog, tree, promise,
                   streamState, fatal>>

\* the build loop is over: tree.write() is called
TreeWrite ==
    /\ pc = "build"
    /\ j > Len(tags)
    /\ finalizeCalls' = finalizeCalls + 1
    /\ pc' = "finalizing"
    /\ UNCHANGED <<argv, payload, adapter, treeCreated, fetched, data, i, tagsByPrefix,
                   warnings, tags, j, pendingWrite, writeLog, tree, promise,
                   streamState, fatal>>

\* tree.write() resolves: the adapter returns the hash (importDemocracyLab:
\* .then(resolve)) and the handler prints 'tree ready'
TreeWriteDone ==
    /\ pc = "finalizing"
    /\ promise' = "resolved"
    /\ pc' = "done"
    /\ UNCHANGED <<argv, payload, adapter, treeCreated, fetched, data, i, tagsByPrefix,
                   warnings, tags, j, pendingWrite, writeLog, tree, finalizeCalls,
                   streamState, fatal>>

\* tree.write() rejects: the adapter throws (importDemocracyLab: .catch(reject)) and
\* the handler exits with status 1
TreeWriteFails ==
    /\ pc = "finalizing"
    /\ promise' = "rejected"
    /\ pc' = "failed"
    /\ fatal' = "treeWrite"
    /\ UNCHANGED <<argv, payload, adapter, treeCreated, fetched, data, i, tagsByPrefix,
                   warnings, tags, j, pendingWrite, writeLog, tree, finalizeCalls,
                   streamState>>

Next ==
    \/ CreateTree
    \/ AppendRejected
    \/ Dispatch
    \/ UnsupportedSourceType
    \/ LaddrGet
    \/ MatchmakerGet
    \/ DemocracyLabGet
    \/ FetchFails
    \/ LaddrFetched
    \/ LaddrLoadTag
    \/ LaddrLoaded
    \/ LaddrWriteChild
    \/ MatchmakerFetched
    \/ MatchmakerWriteChild
    \/ DemocracyLabFetched
    \/ StreamData
    \/ StreamError
    \/ StreamEnd
    \/ DemocracyLabWriteChild
    \/ DemocracyLabDeriveThrows
    \/ WriteChildDone
    \/ WriteChildFails
    \/ TreeWrite
    \/ TreeWriteDone
    \/ TreeWriteFails

Spec == Init /\ [][Next]_vars

---------------------------------------------------------------------------
(* What the specification says of a record, for comparison with the code *)

FirstDot(Handle) == IndexOf(Handle, dot, 1)

HasDot(Handle) == FirstDot(Handle) # 0

\* the handle split on its first "." : everything before it, everything after it
PrefixBeforeFirstDot(Handle) == SubSeq(Handle, 1, FirstDot(Handle) - 1)

TagAfterFirstDot(Handle) == SubSeq(Handle, FirstDot(Handle) + 1, Len(Handle))

LaddrRunDone == adapter = "laddr" /\ pc = "done"

WrittenAt(path) == \E w \in 1..Len(writeLog) : writeLog[w].path = path

\* C1: importLaddr splits each handle that has a "." on its first "." into
\* (prefix, tag), tag being everything after that ".", and writes every record
\* whose prefix is tech or topic at {prefix}/{tag}.toml, in a document with the
\* title and without the handle.  (Stated for the records with something after
\* the first "."; C2 is about the records the adapter drops.)
C1_WrittenAtPrefixSlashTag ==
    LaddrRunDone =>
        \A n \in 1..Len(payload) :
            LET Handle == payload[n].Handle
            IN (/\ HasDot(Handle)
                /\ TagAfterFirstDot(Handle) # <<>>
                /\ PrefixBeforeFirstDot(Handle) \in {tech, topic}) =>
                   \E w \in 1..Len(writeLog) :
                       /\ writeLog[w].path =
                              LaddrPath(PrefixBeforeFirstDot(Handle), TagAfterFirstDot(Handle))
                       /\ HasLine(writeLog[w].bytes, kTitle)
                       /\ ~HasLine(writeLog[w].bytes, kHandle)

\* a run in which one handle carries a second "." after its tag
C1_SecondDotRun ==
    /\ LaddrRunDone
    /\ \E n \in 1..Len(payload) :
           /\ HasDot(payload[n].Handle)
           /\ HasDot(TagAfterFirstDot(payload[n].Handle))

\* the records the specification drops, and those it drops with a warning
DroppedBySpec(Handle) ==
    \/ ~HasDot(Handle)
    \/ PrefixBeforeFirstDot(Handle) = event
    \/ PrefixBeforeFirstDot(Handle) \notin {tech, topic}

WarnedBySpec(Handle) ==
    \/ ~HasDot(Handle)
    \/ /\ PrefixBeforeFirstDot(Handle) # event
       /\ PrefixBeforeFirstDot(Handle) \notin {tech, topic}

\* the text between the first "." and the next one (or the end)
SecondPiece(Handle) ==
    LET rest == TagAfterFirstDot(Handle)
    IN IF HasDot(rest) THEN SubSeq(rest, 1, FirstDot(rest) - 1) ELSE rest

\* a write was made at the path of the record's first two pieces
RecordWritten(Handle) ==
    HasDot(Handle) /\ WrittenAt(LaddrPath(PrefixBeforeFirstDot(Handle), SecondPiece(Handle)))

\* C2: importLaddr makes no write for a record exactly when its handle has no ".",
\* or its prefix is event, or its prefix is neither tech nor topic; it warns for
\* exactly the records dropped for the first or the last reason, never for an
\* event record, and goes on to the next record after every drop.
C2_DroppedExactlyBySpec ==
    LaddrRunDone =>
        /\ i = Len(payload) + 1
        /\ \A n \in 1..Len(payload) :
               ~RecordWritten(payload[n].Handle) <=> DroppedBySpec(payload[n].Handle)
        /\ Len(warnings) =
               Cardinality({n \in 1..Len(payload) : WarnedBySpec(payload[n].Handle)})

\* a handle with no tag: no ".", or nothing between the first "." and the next
NoTag(Handle) == ~HasDot(Handle) \/ SecondPiece(Handle) = <<>>

DroppedByCode(Handle) ==
    \/ NoTag(Handle)
    \/ PrefixBeforeFirstDot(Handle) = event
    \/ PrefixBeforeFirstDot(Handle) \notin {tech, topic}

WarnedByCode(Handle) ==
    \/ NoTag(Handle)
    \/ /\ PrefixBeforeFirstDot(Handle) # event
       /\ PrefixBeforeFirstDot(Handle) \notin {tech, topic}

\* C2 as amended: importLaddr makes no write for a record exactly when its handle
\* has no tag (no ".", or an empty tag after the first "."), or its prefix is event,
\* or its prefix is neither tech nor topic; it warns for exactly the records with no
\* tag (an event prefix included) and those with a tag and a prefix other than
\* event, tech and topic; and it goes on to the next record after every drop.
C2_DroppedExactlyByCode ==
    LaddrRunDone =>
        /\ i = Len(payload) + 1
        /\ \A n \in 1..Len(payload) :
               ~RecordWritten(payload[n].Handle) <=> DroppedByCode(payload[n].Handle)
        /\ Len(warnings) =
               Cardinality({n \in 1..Len(payload) : WarnedByCode(payload[n].Handle)})

\* a finished run that dropped a record with a "." and an empty tag, with a warning,
\* silently dropped an event record, and went on
C2_EmptyTagDropped ==
    /\ LaddrRunDone
    /\ Len(payload) >= 2
    /\ HasDot(payload[1].Handle) /\ NoTag(payload[1].Handle)
    /\ PrefixBeforeFirstDot(payload[2].Handle) = event /\ ~NoTag(payload[2].Handle)
    /\ Len(warnings) = 1

---------------------------------------------------------------------------
(* What the specification says of a CSV header and a category *)

RECURSIVE ReplaceEverySpaceRun(_, _)
\* every run of whitespace becomes r (r holds no whitespace)
ReplaceEverySpaceRun(s, r) ==
    IF FirstSpace(s, 1) > Len(s) THEN s
    ELSE ReplaceEverySpaceRun(ReplaceFirstSpaceRun(s, r), r)

RECURSIVE LastIndexOf(_, _, _)
\* index of the last occurrence of the character c in s at or before n, 0 if none
LastIndexOf(s, c, n) ==
    IF n < 1 THEN 0
    ELSE IF s[n] = c THEN n ELSE LastIndexOf(s, c, n - 1)

\* a parenthetical annotation at the end of s, and the whitespace before it, is cut
StripTrailingAnnotation(s) ==
    LET open == LastIndexOf(s, "(", Len(s))
    IN IF s # <<>> /\ s[Len(s)] = ")" /\ open # 0
       THEN SubSeq(s, 1, SpaceRunStart(s, open) - 1)
       ELSE s

\* the canonical field name of a column header
CanonicalFieldName(columnName) ==
    toLowerCase(ReplaceEverySpaceRun(StripTrailingAnnotation(columnName), <<"_">>))

\* a "(s)" at the end of s becomes "s"
PluralizeTrailing(s) ==
    IF Len(s) >= 3 /\ SubSeq(s, Len(s) - 2, Len(s)) = <<"(", "s", ")">>
    THEN SubSeq(s, 1, Len(s) - 3) \o <<"s">>
    ELSE s

\* the path segment of a category
CanonicalSegment(category) ==
    toLowerCase(PluralizeTrailing(ReplaceEverySpaceRun(category, <<"-">>)))

\* the rows the 'data' handler has buffered are in tags
Buffering == adapter = "democracylab" /\ streamState # "none"

\* C3: importDemocracyLab names the field of every column by the header with its
\* trailing parenthetical annotation stripped, every run of whitespace replaced by
\* one underscore, and lowercased, also when the header has two or more runs.
C3_EveryWhitespaceRunUnderscored ==
    Buffering =>
        \A n \in 1..Len(tags) :
            \A c \in 1..Len(payload[n]) :
                /\ HasKey(tags[n], CanonicalFieldName(payload[n][c][1]))
                /\ Get(tags[n], CanonicalFieldName(payload[n][c][1])) = payload[n][c][2]

\* a buffered row with the header "Priority (1-5)", which has one run of whitespace
C3_PriorityBuffered ==
    /\ Buffering
    /\ \E n \in 1..Len(tags) :
           /\ HasKey(payload[n], hPriority)
           /\ HasKey(tags[n], <<"p", "r", "i", "o", "r", "i", "t", "y">>)

DemocracyLabRunDone == adapter = "democracylab" /\ pc = "done"

Blank(v) == v = Undefined \/ v = <<>>

\* C4: importDemocracyLab writes every buffered row at {segment}/{canonical_name}.toml,
\* segment being the category with all whitespace replaced by hyphens, a trailing
\* "(s)" replaced by "s", and lowercased; the document has no category and no
\* canonical_name, and no parent, subcategory or caption that is blank.
C4_WrittenAtSegmentSlashName ==
    DemocracyLabRunDone =>
        \A n \in 1..Len(tags) :
            \E w \in 1..Len(writeLog) :
                /\ writeLog[w].path =
                       DemocracyLabPath(CanonicalSegment(Get(tags[n], kCategory)),
                                        Get(tags[n], kCanonicalName))
                /\ ~HasLine(writeLog[w].bytes, kCategory)
                /\ ~HasLine(writeLog[w].bytes, kCanonicalName)
                /\ \A k \in {kParent, kSubcategory, kCaption} :
                       Blank(Get(tags[n], k)) => ~HasLine(writeLog[w].bytes, k)

\* a finished run that wrote the category "Health Care(s)" under health-cares
C4_HealthCaresWritten ==
    /\ DemocracyLabRunDone
    /\ \E w \in 1..Len(writeLog) :
           /\ writeLog[w].path =
                  DemocracyLabPath(<<"h", "e", "a", "l", "t", "h", "-", "c", "a", "r", "e", "s">>,
                                   <<"n">>)
           /\ ~HasLine(writeLog[w].bytes, kParent)

---------------------------------------------------------------------------
(* Whole runs, as functions of the payload *)

RECURSIVE LaddrLoadAll(_, _)
\* the loop over data
LaddrLoadAll(records, byPrefix) ==
    IF records = <<>> THEN byPrefix
    ELSE LaddrLoadAll(Tail(records), LaddrLoad(byPrefix, Head(records)))

RECURSIVE WriteAll(_, _)
\* the awaited tree.writeChild calls of a build loop, in order
WriteAll(writes, children) ==
    IF writes = <<>> THEN children
    ELSE WriteAll(Tail(writes), writeChild(children, Head(writes)))

\* the tree a successful run of each adapter finalizes
LaddrTree(records) ==
    LET byPrefix == LaddrLoadAll(records, <<>>)
        queue == LaddrQueue(byPrefix)
    IN WriteAll([n \in 1..Len(queue) |-> LaddrWrite(byPrefix, queue[n])], {})

MatchmakerTree(obj) ==
    WriteAll([n \in 1..Len(obj) |-> MatchmakerWrite(obj, Keys(obj)[n])], {})

DemocracyLabTree(rows) ==
    WriteAll([n \in 1..Len(rows) |-> DemocracyLabWrite(RowToTagData(rows[n], <<>>))], {})

FinalTree(which, served) ==
    CASE which = "laddr" -> LaddrTree(served)
      [] which = "matchmaker" -> MatchmakerTree(served)
      [] which = "democracylab" -> DemocracyLabTree(served)

---------------------------------------------------------------------------
(* Claims about the run *)

\* C5: in importDemocracyLab nothing is written to the tree and tree.write() is not
\* called before the stream has signalled its end, whatever the order of the
\* 'data', 'end' and 'error' events; the rows delivered before are only buffered.
C5_OnlyBufferedBeforeEnd ==
    (adapter = "democracylab" /\ streamState # "ended") =>
        /\ writeLog = <<>>
        /\ pendingWrite = NoWrite
        /\ tree = {}
        /\ finalizeCalls = 0
        /\ streamState = "open" => Len(tags) = i - 1

\* rows were delivered and the stream has not ended
C5_RowsDeliveredBeforeEnd ==
    /\ adapter = "democracylab"
    /\ streamState = "open"
    /\ Len(tags) >= 2

\* C6: tree.write() is invoked at most once in a run, only when every
\* tree.writeChild of the run has completed, exactly once in a successful run, and
\* never in a run in which the fetch or the decoding failed.
C6_FinalizedOnceAfterWrites ==
    /\ finalizeCalls <= 1
    /\ finalizeCalls = 1 => (pendingWrite = NoWrite /\ Len(writeLog) = Len(tags))
    /\ pc = "done" => finalizeCalls = 1
    /\ fatal \in {"fetch", "decode"} => finalizeCalls = 0

\* a successful run with several writes
C6_SuccessfulRunWithWrites ==
    /\ pc = "done"
    /\ Len(writeLog) >= 2
    /\ finalizeCalls = 1

\* the default locations the source names, adapter by adapter
DefaultLocations(which) ==
    CASE which = "matchmaker" -> {MatchmakerDefault}
      [] which = "democracylab" -> {DemocracyLabDefault}
      [] OTHER -> {}

\* C7: each adapter fetches from a fixed default location of its source type when
\* no source is given, and from the given source otherwise.
C7_DefaultOrOverride ==
    fetched # <<>> =>
        IF argv.source = Undefined
        THEN fetched[1] \in DefaultLocations(adapter)
        ELSE fetched[1] \in {argv.source, LaddrUrl(argv.source)}

\* importLaddr has fetched in a run given no source
C7_LaddrFetchedWithoutSource ==
    /\ adapter = "laddr"
    /\ argv.source = Undefined
    /\ fetched # <<>>

FailsFast == argv.append \/ argv.sourceType \notin {"laddr", "matchmaker", "democracylab"}

\* C8: a run in append mode, and a run with an unknown source type, fails with a
\* fatal error before any fetch, any tree write and any finalize.
C8_FailsBeforeFetch ==
    FailsFast =>
        /\ fetched = <<>>
        /\ writeLog = <<>>
        /\ pendingWrite = NoWrite
        /\ tree = {}
        /\ finalizeCalls = 0
        /\ pc \in {"start", "append_check", "crashed", "failed"}
        /\ pc \in {"crashed", "failed"} => fatal \in {"append", "unsupported"}

\* an append run of a known source type has failed
C8_AppendRunFailed ==
    /\ argv.append
    /\ argv.sourceType = "laddr"
    /\ pc = "crashed"
    /\ fatal = "append"

\* the orders the records of a payload can be served in
Reorderings(served) ==
    { [n \in 1..Len(served) |-> served[f[n]]] :
        f \in { g \in [1..Len(served) -> 1..Len(served)] :
                  \A m, n \in 1..Len(served) : g[m] = g[n] => m = n } }

\* C9: the finalized tree does not depend on the order in which the records are
\* processed, also when two records derive the same path.
C9_OrderIndependent ==
    pc = "done" => \A other \in Reorderings(payload) : FinalTree(adapter, other) = tree

\* the write an adapter derives from the n-th record, NoWrite for a dropped record
DerivedWrite(which, served, n) ==
    CASE which = "laddr" ->
             IF LaddrVerdict(served[n].Handle) = "keep"
             THEN [path |-> LaddrPath(LaddrPrefix(served[n].Handle), LaddrTag(served[n].Handle)),
                   bytes |-> LaddrToml(<<<<kHandle, served[n].Handle>>,
                                         <<kTitle, served[n].Title>>>>)]
             ELSE NoWrite
      [] which = "matchmaker" -> MatchmakerWrite(served, served[n][1])
      [] which = "democracylab" -> DemocracyLabWrite(RowToTagData(served[n], <<>>))

\* the writes derived from the records of a payload, in the payload's order
DerivedWrites(which, served) ==
    <<>> \o [n \in 1..Len(served) |-> DerivedWrite(which, served, n)]

\* two of the derived writes go to the same path
Collide(derived, m, n) ==
    /\ m # n
    /\ derived[m] # NoWrite
    /\ derived[m].path = derived[n].path

\* the last of the derived writes that goes to path
LastAt(derived, path) ==
    derived[CHOOSE n \in 1..Len(derived) :
                /\ derived[n].path = path
                /\ \A m \in (n + 1)..Len(derived) : derived[m].path # path]

\* C9 as amended: the finalized tree does not depend on the order in which the
\* records are processed when no two records derive the same path; when two do, the
\* tree holds at that path the document of the one processed last.
C9_OrderIndependentWithoutCollision ==
    pc = "done" =>
        LET derived == DerivedWrites(adapter, payload)
        IN /\ (\A m, n \in 1..Len(derived) : ~Collide(derived, m, n)) =>
                  \A other \in Reorderings(payload) : FinalTree(adapter, other) = tree
           /\ { e.path : e \in tree } =
                  { derived[n].path : n \in 1..Len(derived) } \ {NoWrite.path}
           /\ \A e \in tree : e = LastAt(derived, e.path)

\* a successful run in which two records derived the same path with different
\* documents
C9_CollidingRecords ==
    /\ pc = "done"
    /\ \E m, n \in 1..Len(payload) :
           /\ Collide(DerivedWrites(adapter, payload), m, n)
           /\ DerivedWrite(adapter, payload, m) # DerivedWrite(adapter, payload, n)

\* C10: every fatal error of an importDemocracyLab run, one raised after the end of
\* the stream included, rejects the promise the adapter returned, and the run is
\* reported as a failure.
C10_FatalErrorRejects ==
    (adapter = "democracylab" /\ fatal # "none") => (promise = "rejected" /\ pc = "failed")

\* the 'end' handler has thrown while deriving the path of a row with no category
C10_DerivationThrew ==
    /\ adapter = "democracylab"
    /\ fatal = "derive"

=============================================================================
